---- MODULE Spec2Model ----
(***************************************************************************)
(* A model of the two loop transforms of llvm-tutor:                       *)
(*   SimpleLICM            (passes/SimpleLICM/SimpleLICM.cpp)               *)
(*   DerivedInductionVars  (passes/DerivedInductionVars/...cpp)             *)
(* The program graph is an arena of instructions (identifiers), ordered    *)
(* instruction lists per basic block and a control-flow graph.             *)
(***************************************************************************)
EXTENDS Integers, Sequences, FiniteSets, TLC

(***************************************************************************)
(* Bounds of the model.                                                    *)
(***************************************************************************)
\* number of instructions inside the loop handed to SimpleLICM
NumInsts == 3
\* number of loops of the function handed to DerivedInductionVars
NumLoops == 2
\* number of header merge-points of that function
NumPhis == 3
\* the narrower of the two integer types, in bits
Width == 2
\* the largest start and step of a recurrence
MaxVal == 2
\* the number of loop iterations executed when two graphs are compared
MaxIter == 4

\* the instructions of the loop, in program order
Insts == 1..NumInsts
\* an instruction of the entry block, in front of the loop
ExtInst == NumInsts + 1
\* the terminator of the block "pre"
PreTerm == NumInsts + 2
AllInsts == Insts \cup {ExtInst, PreTerm}

Range(s) == {s[k] : k \in DOMAIN s}
SeqWithout(s, x) == SelectSeq(s, LAMBDA y : y # x)
Perms(S) == {f \in [1..Cardinality(S) -> S] : \A a, b \in DOMAIN f : f[a] = f[b] => a = b}

(***************************************************************************)
(* Control-flow graphs handed to SimpleLICM.  The loop is always           *)
(* {header, body, latch}; body is a conditional block of the loop.         *)
(***************************************************************************)
Blocks == {"entry", "side", "pre", "header", "body", "latch", "exit"}
CFGNames == {"simple", "sharedExit", "twoEntries"}

Succ(c, b) ==
    CASE b = "entry"  -> IF c = "simple" THEN {"pre"}
                         ELSE IF c = "sharedExit" THEN {"pre", "exit"}
                         ELSE {"pre", "side"}
      [] b = "side"   -> IF c = "twoEntries" THEN {"header"} ELSE {}
      [] b = "pre"    -> {"header"}
      [] b = "header" -> {"body", "latch"}
      [] b = "body"   -> {"latch"}
      [] b = "latch"  -> {"header", "exit"}
      [] OTHER        -> {}

Pred(c, b) == {a \in Blocks : b \in Succ(c, a)}

\* L.getBlocks(), in the order the loop lists them
LoopBlockSeq == <<"header", "body", "latch">>
LoopBlocks == Range(LoopBlockSeq)

\* Loop::getLoopPreheader: the single out-of-loop predecessor of the header,
\* if the header is its only successor; "none" otherwise
getLoopPreheader(c) ==
    LET outs == Pred(c, "header") \ LoopBlocks
    IN  IF Cardinality(outs) = 1 /\ (\A p \in outs : Succ(c, p) = {"header"})
        THEN CHOOSE p \in outs : TRUE
        ELSE "none"

\* Loop::getExitBlocks: blocks outside the loop with a predecessor inside
getExitBlocks(c) == {b \in Blocks \ LoopBlocks : Pred(c, b) \cap LoopBlocks # {}}

\* blocks reachable from the entry without passing through block a
RECURSIVE ReachAvoiding(_, _, _)
ReachAvoiding(c, a, R) ==
    LET R2 == R \cup {y \in Blocks \ {a} : \E x \in R : y \in Succ(c, x)}
    IN  IF R2 = R THEN R ELSE ReachAvoiding(c, a, R2)

\* the dominator tree of each graph: DomTree[c][a][b] iff block a dominates b
DomTree ==
    [c \in CFGNames |->
      [a \in Blocks |->
        [b \in Blocks |->
           \/ a = b
           \/ b \notin ReachAvoiding(c, a, IF a = "entry" THEN {} ELSE {"entry"})]]]

VARIABLES
    cfg,          \* the control-flow graph of the function holding the loop
    kind,         \* kind[i]: "phi", "mem", "spec", "nospec" or "br"
    ops,          \* ops[i]: the instructions that are operands of i
    blocks,       \* blocks[b]: the instruction list of block b
    blocks0,      \* the instruction lists when run was called
    InvariantSet, \* SimpleLICM::run's InvariantSet
    Worklist,     \* SimpleLICM::run's Worklist
    pending,      \* members of InvariantSet the hoisting loop has not visited
    hoisted,      \* the instructions moved by the hoisting loop, in order
    pcL,          \* position of SimpleLICM::run
    PA            \* what run returned: "all" or "none" analyses preserved

varsL == <<cfg, kind, ops, blocks, blocks0, InvariantSet, Worklist, pending, hoisted, pcL, PA>>

\* the state of DerivedInductionVars
VARIABLES
    parent,     \* parent[l]: the loop enclosing l, 0 for a top-level loop
    shape,      \* shape[l]: how the header of l is entered
    G,          \* the arena: G[id] is an instruction
    header,     \* header[l]: the instruction list of the header of l
    preheader,  \* preheader[l]: the instruction list of the preheader of l
    G0,         \* G, header and preheader when run was called
    header0,
    preheader0,
    stack,      \* the frames of analyzeLoopRecursively, innermost last
    todo,       \* run: the top-level loops not visited yet
    changed,    \* run's changed
    ret,        \* ret[l]: what analyzeLoopRecursively(l) returned
    rewritten,  \* the merge-points recorded in some DeadPHIs so far
    pcD,        \* position of DerivedInductionVars::run
    PAD         \* what run returned: "all" or "none" analyses preserved

varsD == <<parent, shape, G, header, preheader, G0, header0, preheader0,
           stack, todo, changed, ret, rewritten, pcD, PAD>>
vars == <<varsL, varsD>>

\* the block holding an instruction now
BlockOf(bs, i) == CHOOSE b \in Blocks : i \in Range(bs[b])
InLoop(bs, i) == \E b \in LoopBlocks : i \in Range(bs[b])
PosIn(s, x) == CHOOSE k \in DOMAIN s : s[k] = x

isPHI(i) == kind[i] = "phi"
mayReadOrWriteMemory(i) == kind[i] = "mem"
isSafeToSpeculativelyExecute(i) == kind[i] \in {"spec", "phi"}
users(i) == {u \in AllInsts : i \in ops[u]}

(***************************************************************************)
(* The initial graphs: well-formed SSA.                                    *)
(***************************************************************************)
BlockRank(b) == CASE b = "header" -> 1 [] b = "body" -> 2 [] b = "latch" -> 3 [] OTHER -> 0
LoopDom(a, b) == a = b \/ a = "header"

\* program order: identifiers follow the block order and the list order;
\* merge-points sit in the header, in front of every other instruction
WellPlaced(k, bl) ==
    /\ \A i, j \in Insts : i < j => BlockRank(bl[i]) <= BlockRank(bl[j])
    /\ \A i \in Insts : k[i] = "phi" => bl[i] = "header"
    /\ \A i, j \in Insts : (i < j /\ k[j] = "phi") => k[i] = "phi"

\* the operand sets instruction i may have: a merge-point of the header has
\* one incoming value from inside the loop, every other instruction has its
\* operands defined before it
AllowedOps(k, bl, i) ==
    IF k[i] = "phi"
    THEN {S \in SUBSET {j \in Insts : bl[j] \in {"header", "latch"}} : Cardinality(S) <= 1}
    ELSE SUBSET {j \in Insts : j < i /\ LoopDom(bl[j], bl[i])}

RECURSIVE OperandChoices(_, _, _)
OperandChoices(k, bl, n) ==
    IF n = 0 THEN {<<>>}
    ELSE {Append(s, x) : s \in OperandChoices(k, bl, n - 1), x \in AllowedOps(k, bl, n)}

InitBlocks(bl) ==
    [b \in Blocks |->
        IF b = "pre" THEN <<PreTerm>>
        ELSE IF b = "entry" THEN <<ExtInst>>
        ELSE SelectSeq([i \in Insts |-> i], LAMBDA i : bl[i] = b)]

\* a binary operator with fewer than two operands inside the loop, and every
\* merge-point of the header, also reads the value defined in the entry block
InitOps(o) ==
    [i \in AllInsts |->
        IF i \notin Insts THEN {}
        ELSE IF Cardinality(o[i]) <= 1 THEN o[i] \cup {ExtInst} ELSE o[i]]

InitKind(k) ==
    [i \in AllInsts |-> IF i \in Insts THEN k[i] ELSE IF i = PreTerm THEN "br" ELSE "spec"]

InitLICM ==
    /\ cfg \in CFGNames
    /\ \E k \in [Insts -> {"phi", "mem", "spec", "nospec"}],
          bl \in [Insts -> LoopBlocks] :
            /\ WellPlaced(k, bl)
            /\ kind = InitKind(k)
            /\ blocks = InitBlocks(bl)
            /\ blocks0 = InitBlocks(bl)
            /\ \E o \in OperandChoices(k, bl, NumInsts) : ops = InitOps(o)
    /\ InvariantSet = {}
    /\ Worklist = <<>>
    /\ pending = {}
    /\ hoisted = <<>>
    /\ pcL = "start"
    /\ PA = "unset"

(***************************************************************************)
(* SimpleLICM::run                                                         *)
(***************************************************************************)
Preheader == getLoopPreheader(cfg)

\* lines 33-37
NoPreheader ==
    /\ pcL = "start"
    /\ Preheader = "none"
    /\ pcL' = "done"
    /\ PA' = "all"
    /\ UNCHANGED <<cfg, kind, ops, blocks, blocks0, InvariantSet, Worklist, pending, hoisted>>
    /\ UNCHANGED varsD

\* lines 45-58: is instruction i a seed
IsSeed(bs, i) ==
    /\ ~(isPHI(i) \/ mayReadOrWriteMemory(i))
    /\ \A op \in ops[i] : ~InLoop(bs, op)

\* lines 43-63: the instructions of the loop in scan order
RECURSIVE Concat(_, _)
Concat(f, bseq) == IF bseq = <<>> THEN <<>> ELSE f[Head(bseq)] \o Concat(f, Tail(bseq))
ScanOrder(bs) == Concat(bs, LoopBlockSeq)

Seed ==
    /\ pcL = "start"
    /\ Preheader # "none"
    /\ LET seeds == SelectSeq(ScanOrder(blocks), LAMBDA i : IsSeed(blocks, i))
       IN  /\ InvariantSet' = Range(seeds)
           /\ Worklist' = seeds
    /\ pcL' = "worklist"
    /\ UNCHANGED <<cfg, kind, ops, blocks, blocks0, pending, hoisted, PA>>
    /\ UNCHANGED varsD

\* lines 73-91: one user U of the popped instruction
\* a user test that leaves out the operand loop of lines 76-87
QualifiesAnyOperands(bs, inv, U) ==
    /\ InLoop(bs, U)
    /\ U \notin inv
    /\ ~isPHI(U)
    /\ ~mayReadOrWriteMemory(U)

Qualifies(bs, inv, U) ==
    /\ InLoop(bs, U)
    /\ U \notin inv
    /\ ~isPHI(U)
    /\ ~mayReadOrWriteMemory(U)
    /\ \A op \in ops[U] : ~(InLoop(bs, op) /\ op \notin inv)

\* a user loop that inserts into the set and leaves out the push of line 90
RECURSIVE VisitUsersNoPush(_, _, _, _)
VisitUsersNoPush(bs, us, inv, wl) ==
    IF us = <<>> THEN <<inv, wl>>
    ELSE IF InLoop(bs, Head(us)) /\ Head(us) \notin inv /\ ~isPHI(Head(us))
            /\ ~mayReadOrWriteMemory(Head(us))
            /\ \A op \in ops[Head(us)] : ~(InLoop(bs, op) /\ op \notin inv)
         THEN VisitUsersNoPush(bs, Tail(us), inv \cup {Head(us)}, wl)
         ELSE VisitUsersNoPush(bs, Tail(us), inv, wl)

\* lines 69-92: the users of the popped instruction, in use-list order us
RECURSIVE VisitUsers(_, _, _, _)
VisitUsers(bs, us, inv, wl) ==
    IF us = <<>> THEN <<inv, wl>>
    ELSE IF Qualifies(bs, inv, Head(us))
         THEN VisitUsers(bs, Tail(us), inv \cup {Head(us)}, Append(wl, Head(us)))
         ELSE VisitUsers(bs, Tail(us), inv, wl)

\* lines 66-93: one iteration of the worklist loop
WorklistStep ==
    /\ pcL = "worklist"
    /\ Worklist # <<>>
    /\ LET I == Worklist[Len(Worklist)]
           rest == SubSeq(Worklist, 1, Len(Worklist) - 1)
       IN  \E us \in Perms(users(I)) :
             LET r == VisitUsers(blocks, us, InvariantSet, rest)
             IN  /\ InvariantSet' = r[1]
                 /\ Worklist' = r[2]
    /\ UNCHANGED <<cfg, kind, ops, blocks, blocks0, pending, hoisted, pcL, PA>>
    /\ UNCHANGED varsD

\* line 66 leaving the loop, line 101 entering the hoisting loop
WorklistEmpty ==
    /\ pcL = "worklist"
    /\ Worklist = <<>>
    /\ pcL' = "hoist"
    /\ pending' = InvariantSet
    /\ UNCHANGED <<cfg, kind, ops, blocks, blocks0, InvariantSet, Worklist, hoisted, PA>>
    /\ UNCHANGED varsD

\* lines 111-118
dominatesAllLoopExits(bs, i) ==
    \A EB \in getExitBlocks(cfg) : DomTree[cfg][BlockOf(bs, i)][EB]

\* Instruction::moveBefore: unlink i, put it right in front of target
moveBefore(bs, i, target) ==
    LET cut == [b \in Blocks |-> SeqWithout(bs[b], i)]
        tb  == BlockOf(cut, target)
        p   == PosIn(cut[tb], target)
    IN  [cut EXCEPT ![tb] = SubSeq(cut[tb], 1, p - 1) \o <<i>>
                             \o SubSeq(cut[tb], p, Len(cut[tb]))]

\* Preheader->getTerminator()
getTerminator(bs, b) == bs[b][Len(bs[b])]

\* a hoisting test that leaves out the second conjunct of line 102
ShouldHoistSpeculatable(bs, i) == isSafeToSpeculativelyExecute(i)

\* line 102
ShouldHoist(bs, i) == isSafeToSpeculativelyExecute(i) /\ dominatesAllLoopExits(bs, i)

\* lines 101-106, an instruction that is hoisted
HoistMove ==
    /\ pcL = "hoist"
    /\ \E I \in pending :
         /\ ShouldHoist(blocks, I)
         /\ blocks' = moveBefore(blocks, I, getTerminator(blocks, Preheader))
         /\ hoisted' = Append(hoisted, I)
         /\ pending' = pending \ {I}
    /\ UNCHANGED <<cfg, kind, ops, blocks0, InvariantSet, Worklist, pcL, PA>>
    /\ UNCHANGED varsD

\* lines 101-106, an instruction that stays
HoistSkip ==
    /\ pcL = "hoist"
    /\ \E I \in pending :
         /\ ~ShouldHoist(blocks, I)
         /\ pending' = pending \ {I}
    /\ UNCHANGED <<cfg, kind, ops, blocks, blocks0, InvariantSet, Worklist, hoisted, pcL, PA>>
    /\ UNCHANGED varsD

\* line 108
Return ==
    /\ pcL = "hoist"
    /\ pending = {}
    /\ pcL' = "done"
    /\ PA' = "none"
    /\ UNCHANGED <<cfg, kind, ops, blocks, blocks0, InvariantSet, Worklist, pending, hoisted>>
    /\ UNCHANGED varsD

NextLICM ==
    \/ NoPreheader
    \/ Seed
    \/ WorklistStep
    \/ WorklistEmpty
    \/ HoistMove
    \/ HoistSkip
    \/ Return


(***************************************************************************)
(* The function handed to DerivedInductionVars: a loop forest, and an      *)
(* arena G of instructions.  Every loop is one block (header = latch)      *)
(* with a block in front of it.                                            *)
(***************************************************************************)
Loops == 1..NumLoops
Phis == 1..NumPhis
Widths == {Width, Width + 1}


\* operands: a constant, an instruction of the arena, or nothing
Const(v) == [t |-> "c", n |-> v]
Val(id) == [t |-> "i", n |-> id]
NoOperand == [t |-> "-", n |-> 0]

Instr(op, l, w, a, b, cls, safe) ==
    [op |-> op, loop |-> l, w |-> w, a |-> a, b |-> b, cls |-> cls, safe |-> safe]

\* the number of predecessors of the header outside the loop, and whether
\* the single one branches elsewhere too
OutsidePreds(sh) == IF sh = "multi" THEN 2 ELSE 1
PredHasOtherSuccessor(sh) == sh = "critical"
Shapes == {"simple", "critical", "multi"}

\* Loop::getLoopPreheader
hasLoopPreheader(sh) == OutsidePreds(sh) = 1 /\ ~PredHasOtherSuccessor(sh)
\* Loop::getIncomingAndBackEdge: the header has exactly two predecessors
getIncomingAndBackEdge(sh) == OutsidePreds(sh) + 1 = 2

(***************************************************************************)
(* The merge-points a header may hold.  cls is what the recurrence         *)
(* analysis says of the merge-point:                                       *)
(*   "fp"        not of integer type                                       *)
(*   "unknown"   no add-recurrence                                         *)
(*   "outer"     an add-recurrence of another loop                         *)
(*   "nonaffine" an add-recurrence of this loop that is not affine         *)
(*   "affine"    {start,+,step} of this loop                               *)
(***************************************************************************)
Desc(cls, safe, w, sk, sv, tk, tv) ==
    [cls |-> cls, safe |-> safe, w |-> w, startK |-> sk, start |-> sv,
     stepK |-> tk, step |-> tv]

StructDescs ==
    {Desc(c, TRUE, Width, "const", 0, "const", 1) : c \in {"fp", "unknown", "outer", "nonaffine"}}
    \cup {Desc("affine", FALSE, Width, "const", 1, "const", MaxVal)}
    \cup {Desc("affine", TRUE, Width, "const", 0, "const", 1)}
    \cup {Desc("affine", TRUE, w, "const", 1, "const", MaxVal) : w \in Widths}
    \cup {Desc("affine", TRUE, Width, sk, 1, "expr", MaxVal) : sk \in {"const", "expr"}}

ValueDescs ==
    {Desc("affine", TRUE, w, sk, sv, tk, tv) :
        w \in Widths, sk \in {"const", "expr"}, sv \in 0..MaxVal,
        tk \in {"const", "expr"}, tv \in 1..MaxVal}

\* the instructions of one merge-point p of loop l: the values read from
\* outside the loop, the merge-point, its update and one more user, which
\* also reads the merge-point in front of p (prev) when there is one
Gadget(base, l, d, prev) ==
    LET extStart == base + 1
        extStep  == base + 2
        phi      == base + 3
        inc      == base + 4
        use      == base + 5
        startOp  == IF d.startK = "const" THEN Const(d.start) ELSE Val(extStart)
        stepOp   == IF d.stepK = "const" THEN Const(d.step) ELSE Val(extStep)
    IN  << Instr("ext", 0, d.w, Const(d.start), NoOperand, "-", TRUE),
           Instr("ext", 0, d.w, Const(d.step), NoOperand, "-", TRUE),
           Instr("phi", l, d.w, startOp, Val(inc), d.cls, d.safe),
           Instr(IF d.cls = "affine" THEN "add" ELSE "opq", l, d.w, Val(phi), stepOp, "-", TRUE),
           Instr("use", l, d.w, Val(phi),
                 IF prev = 0 THEN NoOperand ELSE Val(prev), "-", TRUE) >>

GadgetSize == Len(Gadget(0, 0, Desc("fp", TRUE, Width, "const", 0, "const", 1), 0))
PhiId(p) == GadgetSize * (p - 1) + 3
\* the terminators of the header and of the preheader of loop l
HeaderBr(l) == GadgetSize * NumPhis + 2 * l - 1
PreheaderBr(l) == GadgetSize * NumPhis + 2 * l

RECURSIVE BuildArena(_, _, _)
BuildArena(owner, desc, p) ==
    IF p = 0 THEN <<>>
    ELSE BuildArena(owner, desc, p - 1) \o
         Gadget(GadgetSize * (p - 1), owner[p], desc[p],
                IF p > 1 /\ owner[p - 1] = owner[p] THEN PhiId(p - 1) ELSE 0)

RECURSIVE BuildBranches(_)
BuildBranches(l) ==
    IF l = 0 THEN <<>>
    ELSE BuildBranches(l - 1) \o
         << Instr("br", l, 0, NoOperand, NoOperand, "-", TRUE),
            Instr("br", 0, 0, NoOperand, NoOperand, "-", TRUE) >>

\* the header of l: its merge-points, then the other instructions, then the
\* terminator
BuildHeader(owner, l) ==
    LET mine == SelectSeq([p \in Phis |-> p], LAMBDA p : owner[p] = l)
        RECURSIVE Rest(_)
        Rest(ps) == IF ps = <<>> THEN <<>>
                    ELSE <<PhiId(Head(ps)) + 1, PhiId(Head(ps)) + 2>> \o Rest(Tail(ps))
    IN  [k \in 1..Len(mine) |-> PhiId(mine[k])] \o Rest(mine) \o <<HeaderBr(l)>>

Forests == {f \in [Loops -> 0..NumLoops] : \A l \in Loops : f[l] < l}
Owners == {o \in [Phis -> Loops] : \A p, q \in Phis : p < q => o[p] <= o[q]}

InitGraph(owner, desc) ==
    /\ G = BuildArena(owner, desc, NumPhis) \o BuildBranches(NumLoops)
    /\ header = [l \in Loops |-> BuildHeader(owner, l)]
    /\ preheader = [l \in Loops |->
                      IF hasLoopPreheader(shape[l]) THEN <<PreheaderBr(l)>> ELSE <<>>]
    /\ G0 = G
    /\ header0 = header
    /\ preheader0 = preheader

InitRun ==
    /\ stack = <<>>
    /\ todo = SelectSeq([l \in Loops |-> l], LAMBDA l : parent[l] = 0)
    /\ changed = FALSE
    /\ ret = [l \in Loops |-> "unset"]
    /\ rewritten = {}
    /\ pcD = "run"
    /\ PAD = "unset"

IdleL ==
    /\ cfg = "simple"
    /\ kind = <<>>
    /\ ops = <<>>
    /\ blocks = <<>>
    /\ blocks0 = <<>>
    /\ InvariantSet = {}
    /\ Worklist = <<>>
    /\ pending = {}
    /\ hoisted = <<>>
    /\ pcL = "idle"
    /\ PA = "unset"

IdleD ==
    /\ parent = <<>>
    /\ shape = <<>>
    /\ G = <<>>
    /\ header = <<>>
    /\ preheader = <<>>
    /\ G0 = <<>>
    /\ header0 = <<>>
    /\ preheader0 = <<>>
    /\ stack = <<>>
    /\ todo = <<>>
    /\ changed = FALSE
    /\ ret = <<>>
    /\ rewritten = {}
    /\ pcD = "idle"
    /\ PAD = "unset"

\* any forest, any headers
InitDIV ==
    /\ parent \in Forests
    /\ shape \in [Loops -> Shapes]
    /\ \E owner \in Owners, desc \in [Phis -> StructDescs] : InitGraph(owner, desc)
    /\ InitRun
    /\ IdleL

\* a nest whose outermost header holds a unit counter, of either type and
\* at any place, and copies of one more merge-point, over all kinds, types,
\* starts and steps
InitIV ==
    /\ parent = [l \in Loops |-> l - 1]
    /\ shape \in [Loops -> Shapes]
    /\ \E wc \in Widths, d \in ValueDescs \cup StructDescs, c \in Phis :
         LET canon == Desc("affine", TRUE, wc, "const", 0, "const", 1)
         IN  InitGraph([p \in Phis |-> 1], [p \in Phis |-> IF p = c THEN canon ELSE d])
    /\ InitRun
    /\ IdleL

(***************************************************************************)
(* DerivedInductionVars                                                    *)
(***************************************************************************)
isPhiAt(Gx, id) == Gx[id].op = "phi"

\* BasicBlock::getFirstNonPHI
getFirstNonPHI(Gx, hs) == hs[CHOOSE k \in DOMAIN hs :
                               /\ ~isPhiAt(Gx, hs[k])
                               /\ \A m \in 1..(k - 1) : isPhiAt(Gx, hs[m])]

\* the first merge-point of a header, 0 if it has none
FirstPhi(Gx, hs) == IF isPhiAt(Gx, hs[1]) THEN hs[1] ELSE 0
\* the merge-point that follows PN in the header, 0 if none does
NextPhi(Gx, hs, PN) ==
    LET k == PosIn(hs, PN)
    IN  IF k < Len(hs) /\ isPhiAt(Gx, hs[k + 1]) THEN hs[k + 1] ELSE 0

\* Loop::getCanonicalInductionVariable: the first merge-point of the header
\* that enters with the constant 0 and is updated by "add PN, 1"
IsCanonical(Gx, PN) ==
    /\ Gx[PN].a = Const(0)
    /\ Gx[PN].b.t = "i"
    /\ Gx[Gx[PN].b.n].op = "add"
    /\ Gx[Gx[PN].b.n].a = Val(PN)
    /\ Gx[Gx[PN].b.n].b = Const(1)

getCanonicalInductionVariable(Gx, hs, sh) ==
    IF ~getIncomingAndBackEdge(sh) THEN 0
    ELSE LET cands == {k \in DOMAIN hs :
                          /\ \A m \in 1..k : isPhiAt(Gx, hs[m])
                          /\ IsCanonical(Gx, hs[k])}
         IN  IF cands = {} THEN 0
             ELSE hs[CHOOSE k \in cands : \A m \in cands : k <= m]

\* the recurrence of an affine merge-point, read off the graph
StartOf(Gx, PN) == Gx[PN].a
StepOf(Gx, PN) == Gx[Gx[PN].b.n].b
\* two affine recurrences of one loop are the same expression
SameSCEV(Gx, P, Q) ==
    /\ Gx[P].w = Gx[Q].w
    /\ StartOf(Gx, P) = StartOf(Gx, Q) /\ StartOf(Gx, P).t = "c"
    /\ StepOf(Gx, P) = StepOf(Gx, Q) /\ StepOf(Gx, P).t = "c"

\* the value an operand that is no constant has before the loop is entered
InvariantValue(Gx, o) == Gx[o.n].a.n

\* put instruction id in front of target in list s
insertBefore(s, id, target) ==
    IF target \notin Range(s) THEN Append(s, id)
    ELSE LET p == PosIn(s, target)
         IN  SubSeq(s, 1, p - 1) \o <<id>> \o SubSeq(s, p, Len(s))

\* a replacement that redirects the first operand of each user only
replaceFirstOperandUses(Gx, old, new) ==
    [id \in DOMAIN Gx |->
        [Gx[id] EXCEPT !.a = IF @ = Val(old) THEN Val(new) ELSE @]]

\* Value::replaceAllUsesWith
replaceAllUsesWith(Gx, old, new) ==
    [id \in DOMAIN Gx |->
        [Gx[id] EXCEPT !.a = IF @ = Val(old) THEN Val(new) ELSE @,
                       !.b = IF @ = Val(old) THEN Val(new) ELSE @]]

\* Instruction::eraseFromParent
eraseFromParent(Gx, id) == [Gx EXCEPT ![id].op = "erased"]

RECURSIVE eraseAll(_, _)
eraseAll(Gx, dead) ==
    IF dead = <<>> THEN Gx ELSE eraseAll(eraseFromParent(Gx, Head(dead)), Tail(dead))

Top == stack[Len(stack)]
SetTop(f) == [stack EXCEPT ![Len(stack)] = f]

\* lines 46-70: the frame of a call on loop l
Frame(l) ==
    [L |-> l,
     HeaderInsert |-> getFirstNonPHI(G, header[l]),
     PreheaderInsert |-> IF hasLoopPreheader(shape[l])
                         THEN preheader[l][Len(preheader[l])] ELSE 0,
     cur |-> FirstPhi(G, header[l]),
     loop_flag |-> FALSE,
     DeadPHIs |-> <<>>,
     phase |-> "scan",
     subs |-> SelectSeq([m \in Loops |-> m], LAMBDA m : parent[m] = l)]

Scanning == pcD = "run" /\ stack # <<>> /\ Top.phase = "scan" /\ Top.cur # 0

\* lines 73-98: the merge-point passes every test up to the resolution of
\* start and step
Eligible(f) ==
    LET PN == f.cur
        BasicIV == getCanonicalInductionVariable(G, header[f.L], shape[f.L])
    IN  /\ G[PN].cls # "fp"
        /\ G[PN].cls \in {"outer", "nonaffine", "affine"}
        /\ G[PN].cls = "affine"
        /\ BasicIV # 0
        /\ G[PN].safe
        /\ ~SameSCEV(G, PN, BasicIV)

needsStart(f) == StartOf(G, f.cur).t # "c"
needsStep(f) == StepOf(G, f.cur).t # "c"

\* a skip that asks for both start and step to need code
CannotMaterializeBoth(f) == needsStart(f) /\ needsStep(f) /\ f.PreheaderInsert = 0

\* lines 110-116: start or step must be materialized and there is no
\* preheader to do it in
CannotMaterialize(f) == (needsStart(f) \/ needsStep(f)) /\ f.PreheaderInsert = 0

\* the loop goes on with the merge-point after PN
Continue(f) == [f EXCEPT !.cur = NextPhi(G', header'[f.L], f.cur)]

\* lines 73, 77, 79, 84-88, 93-98, 110-116: continue
ScanSkip ==
    /\ Scanning
    /\ \/ ~Eligible(Top)
       \/ CannotMaterialize(Top)
    /\ UNCHANGED <<G, header, preheader>>
    /\ stack' = SetTop(Continue(Top))
    /\ UNCHANGED <<parent, shape, G0, header0, preheader0, todo, changed, ret, rewritten, pcD, PAD>>
    /\ UNCHANGED varsL

\* SCEVExpander::expandCodeFor at the preheader's terminator: one new
\* instruction holding the value
Expanded(o, w) == Instr("expand", 0, w, Const(InvariantValue(G, o)), NoOperand, "-", TRUE)

\* lines 117-123: start cannot be materialized
ScanStartFails ==
    /\ Scanning
    /\ Eligible(Top)
    /\ ~CannotMaterialize(Top)
    /\ needsStart(Top)
    /\ UNCHANGED <<G, header, preheader>>
    /\ stack' = SetTop(Continue(Top))
    /\ UNCHANGED <<parent, shape, G0, header0, preheader0, todo, changed, ret, rewritten, pcD, PAD>>
    /\ UNCHANGED varsL

\* the arena and the preheader after start was resolved (lines 103-105, 117-118)
AfterStart(f) ==
    LET PN == f.cur
    IN  IF needsStart(f)
        THEN [G |-> Append(G, Expanded(StartOf(G, PN), G[PN].w)),
              pre |-> insertBefore(preheader[f.L], Len(G) + 1, f.PreheaderInsert),
              StartVal |-> Val(Len(G) + 1)]
        ELSE [G |-> G, pre |-> preheader[f.L], StartVal |-> StartOf(G, PN)]

\* lines 125-131: step cannot be materialized
ScanStepFails ==
    /\ Scanning
    /\ Eligible(Top)
    /\ ~CannotMaterialize(Top)
    /\ needsStep(Top)
    /\ LET s == AfterStart(Top)
       IN  /\ G' = s.G
           /\ preheader' = [preheader EXCEPT ![Top.L] = s.pre]
    /\ UNCHANGED header
    /\ stack' = SetTop(Continue(Top))
    /\ UNCHANGED <<parent, shape, G0, header0, preheader0, todo, changed, ret, rewritten, pcD, PAD>>
    /\ UNCHANGED varsL

\* the arena and the preheader after step was resolved too (lines 106-108, 125-126)
AfterStep(f) ==
    LET PN == f.cur
        s == AfterStart(f)
    IN  IF needsStep(f)
        THEN [G |-> Append(s.G, Expanded(StepOf(G, PN), G[PN].w)),
              pre |-> insertBefore(s.pre, Len(s.G) + 1, f.PreheaderInsert),
              StartVal |-> s.StartVal,
              StepVal |-> Val(Len(s.G) + 1)]
        ELSE [G |-> s.G, pre |-> s.pre, StartVal |-> s.StartVal, StepVal |-> StepOf(G, PN)]

Resolvable(f) == Eligible(f) /\ ~CannotMaterialize(f)

\* lines 137-138: IRBuilder makes a binary operator of the type of its
\* left operand
CreateMul(l, Gx, BasicIV, StepVal) ==
    Instr("mul", l, Gx[BasicIV].w, Val(BasicIV), StepVal, "-", TRUE)
CreateAdd(l, w, StartVal, Mul) ==
    Instr("add", l, w, StartVal, Val(Mul), "-", TRUE)

\* lines 135-143
ScanRewrite ==
    /\ Scanning
    /\ Resolvable(Top)
    /\ LET f == Top
           PN == f.cur
           BasicIV == getCanonicalInductionVariable(G, header[f.L], shape[f.L])
           s == AfterStep(f)
           Mul == Len(s.G) + 1
           NewVal == Len(s.G) + 2
           G1 == s.G \o << CreateMul(f.L, s.G, BasicIV, s.StepVal),
                          CreateAdd(f.L, G[PN].w, s.StartVal, Mul) >>
       IN  /\ G' = replaceAllUsesWith(G1, PN, NewVal)
           /\ preheader' = [preheader EXCEPT ![f.L] = s.pre]
           /\ header' = [header EXCEPT ![f.L] =
                  insertBefore(insertBefore(@, Mul, f.HeaderInsert), NewVal, f.HeaderInsert)]
           /\ stack' = SetTop([Continue(f) EXCEPT !.DeadPHIs = Append(@, PN),
                                                  !.loop_flag = TRUE])
           /\ rewritten' = rewritten \cup {PN}
    /\ UNCHANGED <<parent, shape, G0, header0, preheader0, todo, changed, ret, pcD, PAD>>
    /\ UNCHANGED varsL

\* line 137 in a build with assertions: BinaryOperator::Create stops the
\* program when its operands differ in type
ScanAssert ==
    /\ Scanning
    /\ Resolvable(Top)
    /\ LET BasicIV == getCanonicalInductionVariable(G, header[Top.L], shape[Top.L])
       IN  G[BasicIV].w # G[Top.cur].w
    /\ LET s == AfterStep(Top)
       IN  /\ G' = s.G
           /\ preheader' = [preheader EXCEPT ![Top.L] = s.pre]
    /\ pcD' = "aborted"
    /\ UNCHANGED <<parent, shape, header, G0, header0, preheader0, stack, todo,
                   changed, ret, rewritten, PAD>>
    /\ UNCHANGED varsL

\* lines 150-154: the scan is over, the recorded merge-points are erased
EraseDead ==
    /\ pcD = "run" /\ stack # <<>> /\ Top.phase = "scan" /\ Top.cur = 0
    /\ G' = eraseAll(G, Top.DeadPHIs)
    /\ header' = [header EXCEPT ![Top.L] =
                     SelectSeq(@, LAMBDA id : id \notin Range(Top.DeadPHIs))]
    /\ stack' = SetTop([Top EXCEPT !.phase = "subs"])
    /\ UNCHANGED <<parent, shape, preheader, G0, header0, preheader0, todo, changed,
                   ret, rewritten, pcD, PAD>>
    /\ UNCHANGED varsL

\* line 156: the call on the next sub-loop
Descend ==
    /\ pcD = "run" /\ stack # <<>> /\ Top.phase = "subs" /\ Top.subs # <<>>
    /\ stack' = Append(SetTop([Top EXCEPT !.subs = Tail(@)]), Frame(Head(Top.subs)))
    /\ UNCHANGED <<parent, shape, G, header, preheader, G0, header0, preheader0, todo,
                   changed, ret, rewritten, pcD, PAD>>
    /\ UNCHANGED varsL

\* what the call returns (line 158)
ReturnValue(f) == f.loop_flag

\* lines 156, 158: a sub-loop's call returns to the call on its parent
ReturnToParent ==
    /\ pcD = "run" /\ Len(stack) > 1 /\ Top.phase = "subs" /\ Top.subs = <<>>
    /\ ret' = [ret EXCEPT ![Top.L] = IF ReturnValue(Top) THEN "true" ELSE "false"]
    /\ stack' = SubSeq(stack, 1, Len(stack) - 1)
    /\ UNCHANGED <<parent, shape, G, header, preheader, G0, header0, preheader0, todo,
                   changed, rewritten, pcD, PAD>>
    /\ UNCHANGED varsL

\* lines 36, 158: a top-level loop's call returns to run
ReturnToRun ==
    /\ pcD = "run" /\ Len(stack) = 1 /\ Top.phase = "subs" /\ Top.subs = <<>>
    /\ ret' = [ret EXCEPT ![Top.L] = IF ReturnValue(Top) THEN "true" ELSE "false"]
    /\ changed' = (changed \/ ReturnValue(Top))
    /\ stack' = <<>>
    /\ UNCHANGED <<parent, shape, G, header, preheader, G0, header0, preheader0, todo,
                   rewritten, pcD, PAD>>
    /\ UNCHANGED varsL

\* lines 35-36
RunCall ==
    /\ pcD = "run" /\ stack = <<>> /\ todo # <<>>
    /\ stack' = <<Frame(Head(todo))>>
    /\ todo' = Tail(todo)
    /\ UNCHANGED <<parent, shape, G, header, preheader, G0, header0, preheader0,
                   changed, ret, rewritten, pcD, PAD>>
    /\ UNCHANGED varsL

\* lines 39-43
RunReturn ==
    /\ pcD = "run" /\ stack = <<>> /\ todo = <<>>
    /\ pcD' = "done"
    /\ PAD' = IF changed THEN "none" ELSE "all"
    /\ UNCHANGED <<parent, shape, G, header, preheader, G0, header0, preheader0,
                   stack, todo, changed, ret, rewritten>>
    /\ UNCHANGED varsL

NextDIV ==
    \/ ScanSkip
    \/ ScanStartFails
    \/ ScanStepFails
    \/ ScanRewrite
    \/ ScanAssert
    \/ EraseDead
    \/ Descend
    \/ ReturnToParent
    \/ ReturnToRun
    \/ RunCall
    \/ RunReturn

\* SimpleLICM::run is called on a loop, DerivedInductionVars is not run
InitSimpleLICM == InitLICM /\ IdleD

SpecLICM == InitSimpleLICM /\ [][NextLICM]_vars
SpecDIV == InitDIV /\ [][NextDIV]_vars
SpecIV == InitIV /\ [][NextDIV]_vars
Spec == (InitIV \/ InitSimpleLICM) /\ [][NextDIV \/ NextLICM]_vars

(***************************************************************************)
(* Properties of DerivedInductionVars                                      *)
(***************************************************************************)
RECURSIVE IsUnder(_, _)
\* loop m is loop l or nested below it
IsUnder(m, l) == m = l \/ (parent[m] # 0 /\ IsUnder(parent[m], l))

\* C3: a call on a loop returns true whenever a merge-point of that loop or
\* of a loop nested below it was rewritten, and run then reports a change.
C3_ChangeReported ==
    /\ \A l \in Loops :
          (ret[l] # "unset" /\ \E p \in rewritten : IsUnder(G0[p].loop, l))
              => ret[l] = "true"
    /\ (pcD = "done" /\ rewritten # {}) => PAD = "none"

ConstantRecurrence(Gx, p) == StartOf(Gx, p).t = "c" /\ StepOf(Gx, p).t = "c"
PhisOf(l) == {id \in Range(header0[l]) : G0[id].op = "phi"}
NoPreheaderLoops == {l \in Loops : ~hasLoopPreheader(shape[l])}

\* what C4 says of the hoister
C4_Hoister ==
    (pcL # "idle" /\ getLoopPreheader(cfg) = "none") =>
        /\ blocks = blocks0
        /\ hoisted = <<>>
        /\ pcL = "done" => PA = "all"

\* C4 as stated: no transform touches a loop that has no preheader, also
\* when start and step of a merge-point are constants.
C4_AsStated ==
    /\ C4_Hoister
    /\ pcD # "idle" =>
         \A l \in NoPreheaderLoops :
            /\ header[l] = header0[l]
            /\ \A id \in DOMAIN G0 : G0[id].loop = l => G[id] = G0[id]
            /\ ret[l] # "true"

\* C4 amended: the hoister leaves a loop with no preheader untouched and
\* reports all analyses preserved; the rewriter puts nothing in front of
\* such a loop and leaves alone every merge-point of it whose start or step
\* is no constant (kept in the header, no use redirected, no change counted);
\* a merge-point with constant start and step is still rewritten.
C4_NoPreheader ==
    /\ C4_Hoister
    /\ pcD # "idle" =>
         \A l \in NoPreheaderLoops :
            /\ preheader[l] = preheader0[l]
            /\ \A p \in PhisOf(l) :
                  (G0[p].cls # "affine" \/ ~ConstantRecurrence(G0, p)) =>
                     /\ p \in Range(header[l])
                     /\ p \notin rewritten
                     /\ G[p] = G0[p]
                     /\ \A id \in DOMAIN G0 :
                           /\ G0[id].a = Val(p) => G[id].a = Val(p)
                           /\ G0[id].b = Val(p) => G[id].b = Val(p)
            /\ ret[l] = "true" =>
                  \E p \in PhisOf(l) \cap rewritten : ConstantRecurrence(G0, p)

\* run is over; a loop with no preheader has a unit counter in front of a safe
\* affine merge-point whose start must be materialized
C4_Witness ==
    /\ pcD = "done"
    /\ \E l \in NoPreheaderLoops : \E p \in PhisOf(l) :
          /\ G0[p].cls = "affine" /\ G0[p].safe
          /\ StartOf(G0, p).t = "i"
          /\ getCanonicalInductionVariable(G0, header0[l], shape[l]) \notin {0, p}
          /\ p \in Range(header[l])

\* the value of an instruction in iteration k of its loop, in the integer
\* type of the instruction
RECURSIVE EvalI(_, _, _)
RECURSIVE EvalO(_, _, _, _)
EvalO(Gx, o, k, w) ==
    IF o.t = "c" THEN o.n % (2 ^ w)
    ELSE IF o.t = "i" THEN EvalI(Gx, o.n, k)
    ELSE 0
EvalI(Gx, id, k) ==
    LET I == Gx[id]
        m == 2 ^ I.w
    IN  CASE I.op = "phi" -> IF k = 0 THEN EvalO(Gx, I.a, 0, I.w) % m
                             ELSE EvalO(Gx, I.b, k - 1, I.w) % m
          [] I.op = "add" -> (EvalO(Gx, I.a, k, I.w) + EvalO(Gx, I.b, k, I.w)) % m
          [] I.op = "mul" -> (EvalO(Gx, I.a, k, I.w) * EvalO(Gx, I.b, k, I.w)) % m
          [] I.op \in {"ext", "expand"} -> I.a.n % m
          [] OTHER -> 0 - 1

\* every former use of p reads, in each iteration, what p held in the
\* graph run was called on
ReadsOldValue(p) ==
    \A id \in DOMAIN G0 : \A k \in 0..MaxIter :
        /\ G0[id].a = Val(p) => EvalO(G, G[id].a, k, G0[p].w) = EvalI(G0, p, k)
        /\ G0[id].b = Val(p) => EvalO(G, G[id].b, k, G0[p].w) = EvalI(G0, p, k)

\* C5: every former use of a rewritten merge-point reads start + step * i,
\* the value the merge-point had in every iteration.
C5_ValueEquivalence == \A p \in rewritten : ReadsOldValue(p)

\* the same, for the merge-points of the integer type of the unit counter
IV_SameTypeEquivalence ==
    \A p \in rewritten :
        (\A q \in PhisOf(G0[p].loop) : G0[q].w = G0[p].w) => ReadsOldValue(p)

LiveIds == {id \in DOMAIN G : G[id].op # "erased"}
Uses(p) == {id \in LiveIds : G[id].a = Val(p) \/ G[id].b = Val(p)}
InAHeader(p) == \E l \in Loops : p \in Range(header[l])
\* the merge-points recorded by a call that is still scanning its header
Recorded == UNION {Range(stack[k].DeadPHIs) : k \in {j \in DOMAIN stack : stack[j].phase = "scan"}}

\* C8: a rewritten merge-point has no use left from the moment it is
\* recorded; it stays in its header until the scan of that header is over and
\* is erased with the others right after; no instruction left in the graph
\* reads an erased one, and nothing else is erased.
C8_DeadCodeCleanup ==
    /\ \A id \in LiveIds : \A o \in {G[id].a, G[id].b} :
          o.t = "i" => G[o.n].op # "erased"
    /\ \A p \in rewritten :
          /\ Uses(p) = {}
          /\ IF p \in Recorded
             THEN G[p].op = "phi" /\ InAHeader(p)
             ELSE G[p].op = "erased" /\ ~InAHeader(p)
    /\ \A id \in DOMAIN G : G[id].op = "erased" => id \in rewritten
    /\ pcD = "done" => Recorded = {}

\* run is over and two merge-points of one header were rewritten, the second
\* one read by a user of the first
C8_Witness ==
    /\ pcD = "done"
    /\ \E p, q \in rewritten :
          /\ p # q
          /\ G0[p].loop = G0[q].loop
          /\ \E id \in DOMAIN G0 : G0[id].a = Val(q) /\ G0[id].b = Val(p)

\* C10: a step of the scan that passes over a merge-point without recording
\* it leaves the graph and the loop's flag as they were.
C10_SkipLeavesGraph ==
    [][ ( /\ pcD = "run" /\ stack # <<>> /\ Len(stack') = Len(stack)
          /\ Top.phase = "scan" /\ Top.cur # 0
          /\ stack'[Len(stack)].cur # Top.cur
          /\ stack'[Len(stack)].DeadPHIs = Top.DeadPHIs )
        => ( /\ G' = G /\ header' = header /\ preheader' = preheader
             /\ stack'[Len(stack)].loop_flag = Top.loop_flag ) ]_vars

(***************************************************************************)
(* Properties of SimpleLICM                                                *)
(***************************************************************************)
pre0 == getLoopPreheader(cfg)
HoistedSet == Range(hoisted)
LicmReturned == pcL = "done" /\ PA = "none"

\* C1: after run, every hoisted instruction stands in the preheader in front
\* of every hoisted user of it, whatever order the invariant set was walked in.
C1_DefBeforeUse ==
    LicmReturned =>
        \A d, u \in HoistedSet :
            d \in ops[u] => PosIn(blocks[pre0], d) < PosIn(blocks[pre0], u)

\* C2: after run, every operand of a hoisted instruction is defined outside
\* the loop (it was outside before, or it was hoisted too).
C2_OperandsOutside ==
    LicmReturned =>
        \A u \in HoistedSet : \A op \in ops[u] : ~InLoop(blocks, op)

\* the candidates of the loop: not a merge-point, no memory access
Candidate(i) == i \in Insts /\ kind[i] \notin {"phi", "mem"}

\* the closure rule applied until nothing is added
RECURSIVE Closure(_)
Closure(S) ==
    LET S2 == S \cup {i \in Insts : Candidate(i) /\ (ops[i] \cap Insts) \subseteq S}
    IN  IF S2 = S THEN S ELSE Closure(S2)

\* C6: when the worklist is empty the invariant set is exactly the fixed
\* point of the closure rule grown from the instructions with no operand
\* inside the loop.
C6_InvariantSetIsFixedPoint ==
    ((pcL = "worklist" /\ Worklist = <<>>) \/ pcL = "hoist" \/ LicmReturned) =>
        InvariantSet = Closure({i \in Insts : Candidate(i) /\ ops[i] \cap Insts = {}})

\* a chain of three invariant instructions next to a merge-point and a memory
\* access that read invariant values and stay out of the set
C6_Witness ==
    /\ pcL = "hoist"
    /\ \E a, b, c \in InvariantSet : a \in ops[b] /\ b \in ops[c]

\* C7: at every step every member of the invariant set is an instruction of
\* the loop that is no merge-point, has no memory effect and has every operand
\* outside the loop or in the set; so no merge-point and no memory access is
\* ever hoisted.
C7_OperandClosure ==
    /\ \A i \in InvariantSet :
          /\ i \in Range(ScanOrder(blocks0))
          /\ ~isPHI(i)
          /\ ~mayReadOrWriteMemory(i)
          /\ \A op \in ops[i] : ~InLoop(blocks0, op) \/ op \in InvariantSet
    /\ HoistedSet \subseteq InvariantSet
    /\ \A i \in AllInsts : (isPHI(i) \/ mayReadOrWriteMemory(i)) =>
          BlockOf(blocks, i) = BlockOf(blocks0, i)

\* a memory access and a merge-point whose operands were all hoisted
C7_Witness ==
    /\ LicmReturned
    /\ \E m, p \in Insts :
          /\ kind[m] = "mem" /\ kind[p] = "phi"
          /\ ops[m] \cap Insts # {} /\ (ops[m] \cap Insts) \subseteq HoistedSet
          /\ ops[p] \cap Insts # {} /\ (ops[p] \cap Insts) \subseteq HoistedSet

\* C9 as stated: an instruction of the invariant set is hoisted if and only
\* if it is safe to speculate and its definition point after the move (the
\* preheader) dominates every exit block.
C9_AsStated ==
    LicmReturned =>
        \A i \in InvariantSet :
            i \in HoistedSet <=>
                /\ isSafeToSpeculativelyExecute(i)
                /\ \A EB \in getExitBlocks(cfg) : DomTree[cfg][pre0][EB]

\* C9 amended: an instruction of the invariant set is hoisted if and only if
\* it is safe to speculate and the block holding it before the move dominates
\* every exit block; each hoisted instruction is put right in front of the
\* preheader's terminator; every other instruction keeps its block and place.
C9_HoistDecision ==
    LicmReturned =>
        /\ HoistedSet =
              {i \in InvariantSet :
                  /\ isSafeToSpeculativelyExecute(i)
                  /\ \A EB \in getExitBlocks(cfg) : DomTree[cfg][BlockOf(blocks0, i)][EB]}
        /\ blocks[pre0] = hoisted \o blocks0[pre0]
        /\ \A b \in Blocks \ {pre0} :
              blocks[b] = SelectSeq(blocks0[b], LAMBDA i : i \notin HoistedSet)

\* two instructions hoisted, one of the invariant set left behind in the
\* conditional block although it is safe to speculate
C9_Witness ==
    /\ LicmReturned
    /\ Len(hoisted) >= 2
    /\ \E i \in InvariantSet \ HoistedSet :
          isSafeToSpeculativelyExecute(i) /\ BlockOf(blocks, i) = "body"

====
